---- MODULE Spec2Model ----
(***************************************************************************)
(* ParaMEDMEM coupling layer of code_saturne                               *)
(* (src/base/cs_paramedmem_coupling.cxx, built with HAVE_PARAMEDMEM).      *)
(*                                                                         *)
(* Each C function is an operator on a coupling structure (a record with   *)
(* the fields of _cs_paramedmem_coupling_t); the actions apply them to     *)
(* the couplings of a process.  Pointers are sequences: NULL is <<>>, a    *)
(* valid pointer is <<object>>.  Ids are 0-based as in the C code, the     *)
(* sequences holding the entries are 1-based.                              *)
(***************************************************************************)
EXTENDS Integers, Sequences, FiniteSets, TLC

VARIABLES
  couplers,      \* couplers[p]: the array _paramed_couplers of process p
  crashed,       \* crashed[p]: process p dereferenced a NULL pointer
  cs_glob_mesh,  \* number of cells of the parent mesh (cs_glob_mesh->n_cells)
  field_values,  \* field_values[p]: the caller's array given to export/import
  script,        \* script[p]: the calls process p makes, in order
  pc,            \* pc[p]: index in script[p] of the next call of process p
  ret            \* ret[p]: the last query of process p and what it returned

vars == <<couplers, crashed, cs_glob_mesh, field_values, script, pc, ret>>

(***************************************************************************)
(* Bounds of the model                                                     *)
(***************************************************************************)
MaxCouplers == 2      \* couplings a process creates (SpecReg)
MaxMeshes == 1        \* meshes defined in a coupling
MaxFields == 2        \* fields added to a coupling
MaxHandle == 2        \* ParaMESH objects built for one slot of one mesh
MaxXfer == 1          \* sendData / recvData calls on one channel
MaxSyncCalls == 2     \* calls of sync_dec per channel of a coupling
ParentCells == 2      \* cells of the parent mesh
MaxDim == 2           \* components of a field

Procs == {0, 1}

NULL == <<>>

\* ret[p] of a process that made no query yet
NoCall == [op |-> "none"]

\* what a call returned: the value, and whether bft_error was called
Returned(op, arg, value, error) ==
  [op |-> op, arg |-> arg, value |-> value, error |-> error]

Min(a, b) == IF a < b THEN a ELSE b

Range(s) == {s[i] : i \in DOMAIN s}

(***************************************************************************)
(* Private functions                                                       *)
(***************************************************************************)

\* std::set<int> filled by insert() from an array of ranks
RankSet(ranks) == {ranks[i] : i \in DOMAIN ranks}

\* _cs_paramedmem_create_InterpKernelDEC: a new channel from group 1 (source)
\* to group 2 (target); nothing attached, never synchronized, nothing sent.
\* local is the field attached last (-1: none), attached every field
\* attached so far.
cs_paramedmem_create_InterpKernelDEC(grp1_global_ranks, grp2_global_ranks) ==
  [src |-> RankSet(grp1_global_ranks),
   tgt |-> RankSet(grp2_global_ranks),
   attached |-> {},
   local |-> -1,
   synchronize_calls |-> 0,
   xfers |-> 0]

\* is_in_grp1 of _add_paramedmem_interpkernel
is_in_grp1(my_rank, grp1_global_ranks) ==
  \E ii \in DOMAIN grp1_global_ranks : my_rank = grp1_global_ranks[ii]

\* (mutant) both channels built from (group 1, group 2) order whatever the
\* group of the caller
new_coupling_unmirrored(name, grp1_global_ranks, grp2_global_ranks, my_rank) ==
  [name |-> <<name>>,
   n_meshes |-> 0,
   meshes |-> NULL,
   n_fields |-> 0,
   fields |-> NULL,
   send_synced |-> 0,
   recv_synced |-> 0,
   sync_calls |-> <<0, 0>>,
   send_dec |-> <<cs_paramedmem_create_InterpKernelDEC(grp1_global_ranks, grp2_global_ranks)>>,
   recv_dec |-> <<cs_paramedmem_create_InterpKernelDEC(grp2_global_ranks, grp1_global_ranks)>>]

\* the coupling built by _add_paramedmem_interpkernel.  sync_calls is not a
\* member of the structure: it records how many calls of
\* cs_paramedmem_sync_dec returned for the send (1) and receive (2) channel.
new_coupling(name, grp1_global_ranks, grp2_global_ranks, my_rank) ==
  [name |-> <<name>>,
   n_meshes |-> 0,
   meshes |-> NULL,
   n_fields |-> 0,
   fields |-> NULL,
   send_synced |-> 0,
   recv_synced |-> 0,
   sync_calls |-> <<0, 0>>,
   send_dec |-> IF is_in_grp1(my_rank, grp1_global_ranks)
                THEN <<cs_paramedmem_create_InterpKernelDEC(grp1_global_ranks, grp2_global_ranks)>>
                ELSE <<cs_paramedmem_create_InterpKernelDEC(grp2_global_ranks, grp1_global_ranks)>>,
   recv_dec |-> IF is_in_grp1(my_rank, grp1_global_ranks)
                THEN <<cs_paramedmem_create_InterpKernelDEC(grp2_global_ranks, grp1_global_ranks)>>
                ELSE <<cs_paramedmem_create_InterpKernelDEC(grp1_global_ranks, grp2_global_ranks)>>]

\* (mutant) a new coupling stored in the slot of a destroyed one, if any
add_reusing_slot(cs, name, grp1_global_ranks, grp2_global_ranks, my_rank) ==
  LET free == {k \in 1..Len(cs) : cs[k].name = NULL}
      c == new_coupling(name, grp1_global_ranks, grp2_global_ranks, my_rank)
  IN IF free = {} THEN Append(cs, c)
     ELSE [cs EXCEPT ![CHOOSE k \in free : \A h \in free : k <= h] = c]

\* _add_paramedmem_interpkernel: the array grows by one, the new coupling last
add_paramedmem_interpkernel(cs, name, grp1_global_ranks, grp2_global_ranks, my_rank) ==
  Append(cs, new_coupling(name, grp1_global_ranks, grp2_global_ranks, my_rank))

\* cs_paramedmem_coupling_by_id
cs_paramedmem_coupling_by_id(cs, pc_id) == cs[pc_id + 1]

\* _paramed_couplers[pc_id] is an element of the array
coupling_by_id_in_array(cs, pc_id) == pc_id >= 0 /\ pc_id < Len(cs)

(***************************************************************************)
(* Collaborators the file calls into.  InterpKernelDEC and ParaMESH belong *)
(* to the coupling library, cs_medcoupling_mesh_copy_from_base to          *)
(* cs_medcoupling_utils: they are modelled by what the calls are           *)
(* documented to do.                                                       *)
(***************************************************************************)

\* DEC::attachLocalField: the field becomes an attachment of the channel
DEC_attachLocalField(dec, f_id) ==
  [dec EXCEPT !.attached = @ \cup {f_id}, !.local = f_id]

\* DEC::synchronize: builds the interpolation matrix (counted)
DEC_synchronize(dec) ==
  [dec EXCEPT !.synchronize_calls = @ + 1]

\* DEC::sendData / DEC::recvData: one collective transfer (counted)
DEC_transfer(dec) ==
  [dec EXCEPT !.xfers = @ + 1]

\* the number of ParaMESH objects built so far for the slot holding pm
ParaGen(pm) == IF pm = NULL THEN 0 ELSE pm[1].gen

\* new ParaMESH(med_mesh, group, ...): gen counts the objects built for the
\* slot the pointer is stored in, the one replaced included
new_ParaMESH(old, grp) ==
  <<[grp |-> grp, gen |-> ParaGen(old) + 1]>>

\* the elements of a set of cell ids in increasing order
RECURSIVE SortedSeq(_)
SortedSeq(S) ==
  IF S = {} THEN <<>>
  ELSE LET m == CHOOSE x \in S : \A y \in S : x <= y
       IN <<m>> \o SortedSeq(S \ {m})

\* cs_medcoupling_mesh_copy_from_base: evaluates the selection criteria on
\* the parent mesh.  A criteria is modelled by the cells it selects, in the
\* order the adapter numbers them: elt_list is the sorted selection,
\* new_to_old the compact -> original numbering.
cs_medcoupling_mesh_copy_from_base(n_parent_cells, mesh) ==
  LET kept == SelectSeq(mesh.sel_criteria, LAMBDA e : e < n_parent_cells)
  IN [mesh EXCEPT !.n_elts = Len(kept),
                  !.elt_list = SortedSeq(Range(kept)),
                  !.new_to_old = <<kept>>,
                  !.n_cells = Len(kept),
                  !.n_nodes = IF Len(kept) = 0 THEN 0 ELSE Len(kept) + 1]

(***************************************************************************)
(* Meshes                                                                  *)
(***************************************************************************)

\* _init_mesh_coupling: needs both channels (it reads their groups)
init_mesh_coupling_faults(coupling) ==
  coupling.send_dec = NULL \/ coupling.recv_dec = NULL

init_mesh_coupling(coupling, pmesh, n_parent_cells) ==
  LET m == cs_medcoupling_mesh_copy_from_base(n_parent_cells, pmesh)
  IN [m EXCEPT !.para_mesh =
        <<new_ParaMESH(pmesh.para_mesh[1], coupling.send_dec[1].src),
          new_ParaMESH(pmesh.para_mesh[2], coupling.recv_dec[1].tgt)>>]

\* the direction bitmask of cs_paramedmem_define_mesh
mesh_direction(is_source, is_dest) ==
  (IF is_source THEN 1 ELSE 0) + (IF is_dest THEN 2 ELSE 0)

\* cs_paramedmem_define_mesh: the new mesh entry
new_mesh(name, select_criteria, elt_dim, is_source, is_dest) ==
  [name |-> name,
   sel_criteria |-> select_criteria,
   elt_dim |-> elt_dim,
   direction |-> mesh_direction(is_source, is_dest),
   n_elts |-> 0,
   elt_list |-> <<>>,
   new_to_old |-> NULL,
   n_cells |-> 0,
   n_nodes |-> 0,
   para_mesh |-> <<NULL, NULL>>]

\* cs_paramedmem_define_mesh: the coupling after the call (the id returned
\* is the former n_meshes)
cs_paramedmem_define_mesh(coupling, name, select_criteria, elt_dim, is_source, is_dest) ==
  [coupling EXCEPT
     !.n_meshes = @ + 1,
     !.meshes = Append(@, new_mesh(name, select_criteria, elt_dim, is_source, is_dest))]

\* cs_paramedmem_init_meshes
cs_paramedmem_init_meshes_faults(coupling) ==
  coupling.n_meshes > 0 /\ init_mesh_coupling_faults(coupling)

cs_paramedmem_init_meshes(coupling, n_parent_cells) ==
  [coupling EXCEPT !.meshes =
     [i \in 1..coupling.n_meshes |->
        init_mesh_coupling(coupling, coupling.meshes[i], n_parent_cells)]]

\* cs_paramedmem_mesh_id: the first mesh of that name, or -1
cs_paramedmem_mesh_id(coupling, mesh_name) ==
  LET hits == {i \in 0..(coupling.n_meshes - 1) :
                 coupling.meshes[i + 1].name = mesh_name}
  IN IF hits = {} THEN -1 ELSE CHOOSE i \in hits : \A k \in hits : i <= k

\* coupling->meshes[mesh_id] is an element of the array
mesh_in_array(coupling, mesh_id) ==
  mesh_id >= 0 /\ mesh_id < Len(coupling.meshes)

\* cs_paramedmem_mesh_get_n_elts: only mesh_id >= 0 is tested
cs_paramedmem_mesh_get_n_elts(coupling, mesh_id) ==
  IF mesh_id >= 0 THEN coupling.meshes[mesh_id + 1].n_elts ELSE 0

\* cs_paramedmem_mesh_get_elt_list: only mesh_id >= 0 is tested; the list
\* is NULL until init_meshes built it
cs_paramedmem_mesh_get_elt_list(coupling, mesh_id) ==
  IF mesh_id >= 0
  THEN IF coupling.meshes[mesh_id + 1].elt_list = <<>> THEN NULL
       ELSE <<coupling.meshes[mesh_id + 1].elt_list>>
  ELSE NULL

\* _destroy_mesh and cs_paramedmem_destroy.  The fields are freed and the
\* array pointer reset, n_fields keeps its value; the coupling itself is
\* neither freed nor removed from _paramed_couplers.
cs_paramedmem_destroy_faults(coupling) ==
  coupling.n_fields > Len(coupling.fields)

cs_paramedmem_destroy(coupling) ==
  [coupling EXCEPT !.name = NULL,
                   !.fields = NULL,
                   !.n_meshes = 0,
                   !.meshes = NULL,
                   !.send_dec = NULL,
                   !.recv_dec = NULL]

(***************************************************************************)
(* Fields                                                                  *)
(***************************************************************************)

\* an uninitialized pointer (a slot of a reallocated array never assigned)
WILD == <<0, 0>>

\* coupling->meshes[mesh_id] and coupling->fields[field_id]
MeshOf(coupling, mesh_id) == coupling.meshes[mesh_id + 1]
FieldOf(coupling, field_id) == coupling.fields[field_id + 1][1]

\* TypeOfField chosen from medcpl_field_type (cs_medcpl_cell_field = 0,
\* cs_medcpl_vertex_field = 1)
field_type(medcpl_field_type) ==
  IF medcpl_field_type = 1 THEN "ON_NODES" ELSE "ON_CELLS"

\* TypeOfTimeDiscretization chosen from medcpl_time_discr
field_td(medcpl_time_discr) ==
  IF medcpl_time_discr = 1 THEN "ONE_TIME"
  ELSE IF medcpl_time_discr = 2 THEN "LINEAR_TIME"
  ELSE "NO_TIME"

\* n_locs of cs_paramedmem_field_add
field_n_locs(pmesh, type) ==
  IF type = "ON_NODES" THEN pmesh.n_nodes ELSE pmesh.n_cells

\* BFT_REALLOC(coupling->fields, n_fields + 1): the slots kept, the others
\* uninitialized, then the new field stored in slot f_id
realloc_fields(fields, f_id, fld) ==
  [k \in 1..(f_id + 1) |->
     IF k = f_id + 1 THEN <<fld>>
     ELSE IF k <= Len(fields) THEN fields[k]
     ELSE WILD]

\* cs_paramedmem_field_add: the coupling after the call (the id returned is
\* the former n_fields).  pf is 0 for a field with no ParaFIELD, else the
\* direction of the channel it was attached to; the array is allocated
\* uninitialized (junk).
cs_paramedmem_field_add(coupling, name, mesh_id, dim, medcpl_field_type, medcpl_time_discr, dirflag, junk) ==
  LET pmesh == MeshOf(coupling, mesh_id)
      type == field_type(medcpl_field_type)
      f_id == coupling.n_fields
      to_send == dirflag = 1 /\ coupling.send_dec # NULL
      to_recv == ~to_send /\ dirflag = 2 /\ coupling.recv_dec # NULL
      fld == [mesh_id |-> mesh_id,
              dim |-> dim,
              td |-> field_td(medcpl_time_discr),
              type |-> type,
              name |-> name,
              pf |-> IF to_send THEN 1 ELSE IF to_recv THEN 2 ELSE 0,
              array |-> [k \in 1..(field_n_locs(pmesh, type) * dim) |-> junk]]
      pm0 == IF to_send /\ pmesh.para_mesh[1] = NULL
             THEN new_ParaMESH(NULL, coupling.send_dec[1].src)
             ELSE pmesh.para_mesh[1]
      pm1 == IF to_recv /\ pmesh.para_mesh[2] = NULL
             THEN new_ParaMESH(NULL, coupling.recv_dec[1].tgt)
             ELSE pmesh.para_mesh[2]
  IN [coupling EXCEPT
        !.meshes[mesh_id + 1].para_mesh = <<pm0, pm1>>,
        !.send_dec = IF to_send THEN <<DEC_attachLocalField(@[1], f_id)>> ELSE @,
        !.recv_dec = IF to_recv THEN <<DEC_attachLocalField(@[1], f_id)>> ELSE @,
        !.fields = realloc_fields(@, f_id, fld),
        !.n_fields = @ + 1]

\* (mutant) the loop without its break: the last field of that mesh and name
field_get_id_last(coupling, mesh_id, name) ==
  LET hits == {i \in 0..(coupling.n_fields - 1) :
                 /\ FieldOf(coupling, i).mesh_id = mesh_id
                 /\ FieldOf(coupling, i).name = name}
  IN IF hits = {} THEN -1 ELSE CHOOSE i \in hits : \A k \in hits : i >= k

\* cs_paramedmem_field_get_id reads fields[i] for i < n_fields: an entry the
\* array does not hold, or never assigned, is a wild read
cs_paramedmem_field_get_id_faults(coupling) ==
  \E i \in 0..(coupling.n_fields - 1) :
    i >= Len(coupling.fields) \/ coupling.fields[i + 1] = WILD

\* cs_paramedmem_field_get_id: the first field of that mesh and name, or -1
cs_paramedmem_field_get_id(coupling, mesh_id, name) ==
  LET hits == {i \in 0..(coupling.n_fields - 1) :
                 /\ FieldOf(coupling, i).mesh_id = mesh_id
                 /\ FieldOf(coupling, i).name = name}
  IN IF hits = {} THEN -1 ELSE CHOOSE i \in hits : \A k \in hits : i <= k

\* a field, and its mesh, that the coupling holds: export, import and
\* reattach dereference both
field_is_valid(coupling, field_id) ==
  /\ field_id >= 0
  /\ field_id < Len(coupling.fields)
  /\ coupling.fields[field_id + 1] # WILD
  /\ FieldOf(coupling, field_id).mesh_id < Len(coupling.meshes)

\* cs_paramedmem_field_export writes val_ptr[0 .. dim*n_elts-1]
field_export_extent(coupling, field_id) ==
  FieldOf(coupling, field_id).dim
    * MeshOf(coupling, FieldOf(coupling, field_id).mesh_id).n_elts

\* (mutant) an export that reads the caller's array contiguously whatever
\* on_parent says
field_export_contiguous(fld, pmesh, on_parent, values) ==
  [k \in 1..Len(fld.array) |->
     IF k - 1 >= fld.dim * pmesh.n_elts THEN fld.array[k] ELSE values[k]]

\* cs_paramedmem_field_export: the field's array after the call
field_export_array(fld, pmesh, on_parent, values) ==
  LET dim == fld.dim
      n_elts == pmesh.n_elts
      elt_list == pmesh.elt_list
  IN [k \in 1..Len(fld.array) |->
        IF k - 1 >= dim * n_elts THEN fld.array[k]
        ELSE IF ~on_parent THEN values[k]
        ELSE LET i == (k - 1) \div dim
                 j == (k - 1) % dim
             IN values[elt_list[i + 1] * dim + j + 1]]

\* (mutant) the export followed by a sendData() on the send channel
field_export_sending(coupling, field_id, on_parent, values) ==
  [coupling EXCEPT
     !.fields[field_id + 1][1].array =
        field_export_array(FieldOf(coupling, field_id),
                           MeshOf(coupling, FieldOf(coupling, field_id).mesh_id),
                           on_parent, values),
     !.send_dec = IF @ = NULL THEN @ ELSE <<DEC_transfer(@[1])>>]

cs_paramedmem_field_export(coupling, field_id, on_parent, values) ==
  [coupling EXCEPT !.fields[field_id + 1][1].array =
     field_export_array(FieldOf(coupling, field_id),
                        MeshOf(coupling, FieldOf(coupling, field_id).mesh_id),
                        on_parent, values)]

\* (mutant) the selection list and the renumbering ignored
import_target_compact(pmesh, dim, on_parent, i, j) == i * dim + j

\* the entry of the caller's array that element i, component j is written
\* to by cs_paramedmem_field_import (0-based)
import_target(pmesh, dim, on_parent, i, j) ==
  IF ~on_parent THEN dim * pmesh.new_to_old[1][i + 1] + j
  ELSE pmesh.elt_list[i + 1] * dim + j

\* the loops of cs_paramedmem_field_import over the field fld of mesh
\* pmesh: the caller's array after them; a later iteration overwrites an
\* earlier one
import_scatter(fld, pmesh, on_parent, values) ==
  LET dim == fld.dim
      writers(k) == {i \in 0..(pmesh.n_elts - 1) :
                       \E j \in 0..(dim - 1) :
                          import_target(pmesh, dim, on_parent, i, j) = k - 1}
  IN [k \in 1..Len(values) |->
        IF writers(k) = {} THEN values[k]
        ELSE LET i == CHOOSE x \in writers(k) : \A y \in writers(k) : y <= x
                 j == CHOOSE y \in 0..(dim - 1) :
                        import_target(pmesh, dim, on_parent, i, y) = k - 1
             IN fld.array[i * dim + j + 1]]

\* (mutant) the caller's array cleared before the values are scattered
field_import_clearing(coupling, field_id, on_parent, values) ==
  import_scatter(FieldOf(coupling, field_id),
                 MeshOf(coupling, FieldOf(coupling, field_id).mesh_id),
                 on_parent, [k \in 1..Len(values) |-> 0])

\* cs_paramedmem_field_import: the caller's array after the call
cs_paramedmem_field_import(coupling, field_id, on_parent, values) ==
  import_scatter(FieldOf(coupling, field_id),
                 MeshOf(coupling, FieldOf(coupling, field_id).mesh_id),
                 on_parent, values)

(***************************************************************************)
(* Synchronization and transfer                                            *)
(***************************************************************************)

\* cs_paramedmem_sync_dec: synchronize() is called on a NULL channel when
\* the flag is 0 and the coupling was destroyed
cs_paramedmem_sync_dec_faults(coupling, dec_to_sync) ==
  IF dec_to_sync = 1
  THEN coupling.send_synced = 0 /\ coupling.send_dec = NULL
  ELSE coupling.recv_synced = 0 /\ coupling.recv_dec = NULL

\* (mutant) sync_dec without the test of the synced flags
sync_dec_unguarded(coupling, dec_to_sync) ==
  IF dec_to_sync = 1
  THEN IF coupling.send_dec = NULL THEN coupling
       ELSE [coupling EXCEPT !.send_dec = <<DEC_synchronize(@[1])>>,
                             !.send_synced = 1]
  ELSE IF coupling.recv_dec = NULL THEN coupling
       ELSE [coupling EXCEPT !.recv_dec = <<DEC_synchronize(@[1])>>,
                             !.recv_synced = 1]

\* (mutant) only dec_to_sync = 2 taken as the receive channel
sync_dec_two_is_recv(coupling, dec_to_sync) ==
  IF dec_to_sync # 2
  THEN IF coupling.send_synced = 0
       THEN [coupling EXCEPT !.send_dec = <<DEC_synchronize(@[1])>>,
                             !.send_synced = 1]
       ELSE coupling
  ELSE IF coupling.recv_synced = 0
       THEN [coupling EXCEPT !.recv_dec = <<DEC_synchronize(@[1])>>,
                             !.recv_synced = 1]
       ELSE coupling

cs_paramedmem_sync_dec(coupling, dec_to_sync) ==
  IF dec_to_sync = 1
  THEN IF coupling.send_synced = 0
       THEN [coupling EXCEPT !.send_dec = <<DEC_synchronize(@[1])>>,
                             !.send_synced = 1]
       ELSE coupling
  ELSE IF coupling.recv_synced = 0
       THEN [coupling EXCEPT !.recv_dec = <<DEC_synchronize(@[1])>>,
                             !.recv_synced = 1]
       ELSE coupling

\* cs_paramedmem_send_data
cs_paramedmem_send_data_faults(coupling) == coupling.send_dec = NULL

cs_paramedmem_send_data(coupling) ==
  [coupling EXCEPT !.send_dec = <<DEC_transfer(@[1])>>]

\* cs_paramedmem_recv_data: recvData() overwrites the arrays of the fields
\* attached to the receive channel with what the peer sent (incoming gives
\* the new array of each attached field)
cs_paramedmem_recv_data_faults(coupling) == coupling.recv_dec = NULL

cs_paramedmem_recv_data(coupling, incoming) ==
  [coupling EXCEPT
     !.recv_dec = <<DEC_transfer(@[1])>>,
     !.fields = [k \in 1..Len(coupling.fields) |->
                   IF (k - 1) \in coupling.recv_dec[1].attached
                      /\ coupling.fields[k] # WILD
                   THEN <<[coupling.fields[k][1] EXCEPT !.array = incoming[k - 1]]>>
                   ELSE coupling.fields[k]]]

\* cs_paramedmem_reattach_field: chooses the channel from the direction of
\* the field's mesh
cs_paramedmem_reattach_field_faults(coupling, field_id) ==
  LET d == MeshOf(coupling, FieldOf(coupling, field_id).mesh_id).direction
  IN \/ d = 1 /\ coupling.send_dec = NULL
     \/ d = 2 /\ coupling.recv_dec = NULL

\* (mutant) the channel marked as to be synchronized again
reattach_field_resyncing(coupling, field_id) ==
  LET d == MeshOf(coupling, FieldOf(coupling, field_id).mesh_id).direction
  IN IF d = 1
     THEN [coupling EXCEPT !.send_dec = <<DEC_attachLocalField(@[1], field_id)>>,
                           !.send_synced = 0]
     ELSE IF d = 2
     THEN [coupling EXCEPT !.recv_dec = <<DEC_attachLocalField(@[1], field_id)>>,
                           !.recv_synced = 0]
     ELSE coupling

cs_paramedmem_reattach_field(coupling, field_id) ==
  LET d == MeshOf(coupling, FieldOf(coupling, field_id).mesh_id).direction
  IN IF d = 1
     THEN [coupling EXCEPT !.send_dec = <<DEC_attachLocalField(@[1], field_id)>>]
     ELSE IF d = 2
     THEN [coupling EXCEPT !.recv_dec = <<DEC_attachLocalField(@[1], field_id)>>]
     ELSE coupling

(***************************************************************************)
(* Actions: one per public function, called by process p with arguments    *)
(* taken from the given sets.  A call that dereferences a NULL pointer     *)
(* ends the process (crashed).                                             *)
(***************************************************************************)

Handles(p) == 0..(Len(couplers[p]) - 1)

Fault(p) ==
  /\ crashed' = [crashed EXCEPT ![p] = TRUE]
  /\ UNCHANGED couplers

Store(p, id, c) ==
  /\ couplers' = [couplers EXCEPT ![p][id + 1] = c]
  /\ UNCHANGED crashed

\* the field's array as a read past its end sees it
PadArray(coupling, field_id, len, junk) ==
  [coupling EXCEPT !.fields[field_id + 1][1].array =
     [k \in 1..len |-> IF k <= Len(@) THEN @[k] ELSE junk]]

\* cs_paramedmem_interpkernel_create
Create(p, max_couplers, groups) ==
  /\ ~crashed[p]
  /\ Len(couplers[p]) < max_couplers
  /\ \E g1 \in groups, g2 \in groups :
       couplers' = [couplers EXCEPT
                      ![p] = add_paramedmem_interpkernel(@, "c", g1, g2, p)]
  /\ UNCHANGED <<crashed, cs_glob_mesh, ret, field_values, script, pc>>

Destroy(p) ==
  /\ ~crashed[p]
  /\ \E id \in Handles(p) :
       LET c == cs_paramedmem_coupling_by_id(couplers[p], id)
       IN IF cs_paramedmem_destroy_faults(c)
          THEN Fault(p)
          ELSE Store(p, id, cs_paramedmem_destroy(c))
  /\ UNCHANGED <<cs_glob_mesh, ret, field_values, script, pc>>

DefineMesh(p, names, criteria) ==
  /\ ~crashed[p]
  /\ \E id \in Handles(p), name \in names, crit \in criteria,
        is_source \in BOOLEAN, is_dest \in BOOLEAN :
       LET c == cs_paramedmem_coupling_by_id(couplers[p], id)
       IN /\ c.n_meshes < MaxMeshes
          /\ Store(p, id, cs_paramedmem_define_mesh(c, name, crit, 3, is_source, is_dest))
  /\ UNCHANGED <<cs_glob_mesh, ret, field_values, script, pc>>

InitMeshes(p) ==
  /\ ~crashed[p]
  /\ \E id \in Handles(p) :
       LET c == cs_paramedmem_coupling_by_id(couplers[p], id)
       IN /\ \A m \in 1..Len(c.meshes), s \in 1..2 :
               ParaGen(c.meshes[m].para_mesh[s]) < MaxHandle
          /\ IF cs_paramedmem_init_meshes_faults(c)
             THEN Fault(p)
             ELSE Store(p, id, cs_paramedmem_init_meshes(c, cs_glob_mesh))
  /\ UNCHANGED <<cs_glob_mesh, ret, field_values, script, pc>>

FieldAdd(p, names, dims, types, dirflags, junks) ==
  /\ ~crashed[p]
  /\ \E id \in Handles(p), name \in names, dim \in dims,
        type \in types, dirflag \in dirflags, junk \in junks :
       LET c == cs_paramedmem_coupling_by_id(couplers[p], id)
       IN /\ c.n_fields < MaxFields
          /\ \E mesh_id \in 0..(c.n_meshes - 1) :
               Store(p, id, cs_paramedmem_field_add(c, name, mesh_id, dim, type, 0, dirflag, junk))
  /\ UNCHANGED <<cs_glob_mesh, ret, field_values, script, pc>>

\* a write past the end of the field's array either ends the process or
\* lands in memory the model does not hold
FieldExport(p, exports) ==
  /\ ~crashed[p]
  /\ \E id \in Handles(p), on_parent \in BOOLEAN, values \in exports :
       LET c == cs_paramedmem_coupling_by_id(couplers[p], id)
       IN \E field_id \in 0..(c.n_fields - 1) :
            IF ~field_is_valid(c, field_id)
            THEN Fault(p)
            ELSE \/ Store(p, id, cs_paramedmem_field_export(c, field_id, on_parent, values))
                 \/ /\ field_export_extent(c, field_id) > Len(FieldOf(c, field_id).array)
                    /\ Fault(p)
  /\ UNCHANGED <<cs_glob_mesh, ret, field_values, script, pc>>

\* a read past the end of the field's array sees junk
FieldImport(p, junks) ==
  /\ ~crashed[p]
  /\ \E id \in Handles(p), on_parent \in BOOLEAN, junk \in junks :
       LET c == cs_paramedmem_coupling_by_id(couplers[p], id)
       IN \E field_id \in 0..(c.n_fields - 1) :
            IF ~field_is_valid(c, field_id)
            THEN Fault(p) /\ UNCHANGED field_values
            ELSE /\ field_values' =
                      [field_values EXCEPT ![p] =
                         cs_paramedmem_field_import(
                           PadArray(c, field_id, field_export_extent(c, field_id), junk),
                           field_id, on_parent, @)]
                 /\ UNCHANGED <<couplers, crashed>>
  /\ UNCHANGED <<cs_glob_mesh, ret, script, pc>>

MeshId(p, names) ==
  /\ ~crashed[p]
  /\ \E id \in Handles(p), name \in names :
       LET c == cs_paramedmem_coupling_by_id(couplers[p], id)
       IN ret' = [ret EXCEPT ![p] =
            Returned("mesh_id", <<id, name>>, cs_paramedmem_mesh_id(c, name), FALSE)]
  /\ UNCHANGED <<couplers, crashed, cs_glob_mesh, field_values, script, pc>>

\* with mesh_id >= n_meshes the function reads coupling->meshes[mesh_id]
\* past the array and follows what it finds: the read ends the process or
\* the caller gets whatever the memory holds
MeshGetNElts(p, mesh_ids, garbage) ==
  /\ ~crashed[p]
  /\ \E id \in Handles(p), mesh_id \in mesh_ids :
       LET c == cs_paramedmem_coupling_by_id(couplers[p], id)
       IN IF mesh_id < 0 \/ mesh_in_array(c, mesh_id)
          THEN /\ ret' = [ret EXCEPT ![p] =
                    Returned("mesh_get_n_elts", <<id, mesh_id>>,
                             cs_paramedmem_mesh_get_n_elts(c, mesh_id), FALSE)]
               /\ UNCHANGED <<couplers, crashed>>
          ELSE \/ Fault(p) /\ UNCHANGED ret
               \/ /\ \E g \in garbage :
                       ret' = [ret EXCEPT ![p] =
                         Returned("mesh_get_n_elts", <<id, mesh_id>>, g, FALSE)]
                  /\ UNCHANGED <<couplers, crashed>>
  /\ UNCHANGED <<cs_glob_mesh, field_values, script, pc>>

MeshGetEltList(p, mesh_ids) ==
  /\ ~crashed[p]
  /\ \E id \in Handles(p), mesh_id \in mesh_ids :
       LET c == cs_paramedmem_coupling_by_id(couplers[p], id)
       IN IF mesh_id < 0 \/ mesh_in_array(c, mesh_id)
          THEN /\ ret' = [ret EXCEPT ![p] =
                    Returned("mesh_get_elt_list", <<id, mesh_id>>,
                             cs_paramedmem_mesh_get_elt_list(c, mesh_id), FALSE)]
               /\ UNCHANGED <<couplers, crashed>>
          ELSE \/ Fault(p) /\ UNCHANGED ret
               \/ /\ \E g \in {NULL, WILD} :
                       ret' = [ret EXCEPT ![p] =
                         Returned("mesh_get_elt_list", <<id, mesh_id>>, g, FALSE)]
                  /\ UNCHANGED <<couplers, crashed>>
  /\ UNCHANGED <<cs_glob_mesh, field_values, script, pc>>

FieldGetId(p, mesh_ids, names) ==
  /\ ~crashed[p]
  /\ \E id \in Handles(p), mesh_id \in mesh_ids, name \in names :
       LET c == cs_paramedmem_coupling_by_id(couplers[p], id)
       IN IF cs_paramedmem_field_get_id_faults(c)
          THEN Fault(p) /\ UNCHANGED ret
          ELSE /\ ret' = [ret EXCEPT ![p] =
                    Returned("field_get_id", <<id, mesh_id, name>>,
                             cs_paramedmem_field_get_id(c, mesh_id, name), FALSE)]
               /\ UNCHANGED <<couplers, crashed>>
  /\ UNCHANGED <<cs_glob_mesh, field_values, script, pc>>

\* dec_to_sync is any integer: 1 is the send channel, every other value the
\* receive channel
SyncDecWith(p, decs) ==
  /\ ~crashed[p]
  /\ \E id \in Handles(p), dec_to_sync \in decs :
       LET c == cs_paramedmem_coupling_by_id(couplers[p], id)
           ch == IF dec_to_sync = 1 THEN 1 ELSE 2
       IN /\ c.sync_calls[ch] < MaxSyncCalls
          /\ IF cs_paramedmem_sync_dec_faults(c, dec_to_sync)
             THEN Fault(p)
             ELSE Store(p, id, [cs_paramedmem_sync_dec(c, dec_to_sync)
                                  EXCEPT !.sync_calls[ch] = @ + 1])
  /\ UNCHANGED <<cs_glob_mesh, ret, field_values, script, pc>>

SyncDec(p) == SyncDecWith(p, {1, 2})

SendData(p) ==
  /\ ~crashed[p]
  /\ \E id \in Handles(p) :
       LET c == cs_paramedmem_coupling_by_id(couplers[p], id)
       IN IF cs_paramedmem_send_data_faults(c)
          THEN Fault(p)
          ELSE /\ c.send_dec[1].xfers < MaxXfer
               /\ Store(p, id, cs_paramedmem_send_data(c))
  /\ UNCHANGED <<cs_glob_mesh, ret, field_values, script, pc>>

\* the peer's data: every entry of every attached array becomes v
RecvData(p, peer_vals) ==
  /\ ~crashed[p]
  /\ \E id \in Handles(p), v \in peer_vals :
       LET c == cs_paramedmem_coupling_by_id(couplers[p], id)
           incoming == [f \in 0..(Len(c.fields) - 1) |->
                          IF c.fields[f + 1] = WILD THEN <<>>
                          ELSE [k \in 1..Len(FieldOf(c, f).array) |-> v]]
       IN IF cs_paramedmem_recv_data_faults(c)
          THEN Fault(p)
          ELSE /\ c.recv_dec[1].xfers < MaxXfer
               /\ Store(p, id, cs_paramedmem_recv_data(c, incoming))
  /\ UNCHANGED <<cs_glob_mesh, ret, field_values, script, pc>>

ReattachField(p) ==
  /\ ~crashed[p]
  /\ \E id \in Handles(p) :
       LET c == cs_paramedmem_coupling_by_id(couplers[p], id)
       IN \E field_id \in 0..(c.n_fields - 1) :
            IF ~field_is_valid(c, field_id) \/ cs_paramedmem_reattach_field_faults(c, field_id)
            THEN Fault(p)
            ELSE Store(p, id, cs_paramedmem_reattach_field(c, field_id))
  /\ UNCHANGED <<cs_glob_mesh, ret, field_values, script, pc>>

(***************************************************************************)
(* Spec: the calls of the process of rank 0 on one coupling, in any order  *)
(***************************************************************************)

\* the ranks given to create: with rank 0 calling, the caller is in group 1
\* only, in group 2 only, in both or in neither
GroupArgs == {<<0>>, <<1>>, <<1, 0>>}
\* selection criteria: the cells selected, in compact order
CriteriaArgs == {<<1>>}
MeshNames == {"m"}
FieldNames == {"f"}
\* contents of uninitialized memory, values a peer sends
JunkVals == {0}
PeerVals == {5}

Init ==
  /\ couplers = [p \in Procs |-> <<>>]
  /\ crashed = [p \in Procs |-> FALSE]
  /\ cs_glob_mesh = ParentCells
  /\ field_values = [p \in Procs |-> <<>>]
  /\ script = [p \in Procs |-> <<>>]
  /\ pc = [p \in Procs |-> 1]
  /\ ret = [p \in Procs |-> NoCall]

Next ==
  \/ Create(0, 1, GroupArgs)
  \/ Destroy(0)
  \/ DefineMesh(0, MeshNames, CriteriaArgs)
  \/ InitMeshes(0)
  \/ FieldAdd(0, FieldNames, {1}, {0}, {1, 2, 3}, JunkVals)
  \/ SyncDec(0)
  \/ SendData(0)
  \/ RecvData(0, PeerVals)
  \/ ReattachField(0)

Spec == Init /\ [][Next]_vars

(***************************************************************************)
(* SpecReg: the array of couplings of the process of rank 0 under create,  *)
(* destroy and cs_paramedmem_coupling_by_id with any id.                   *)
(***************************************************************************)

\* cs_paramedmem_coupling_by_id reads _paramed_couplers[pc_id] with no test
\* of pc_id: outside the array the read ends the process or yields whatever
\* the memory holds (NULL or a wild pointer)
CouplingById(p, ids) ==
  /\ ~crashed[p]
  /\ \E pc_id \in ids :
       IF coupling_by_id_in_array(couplers[p], pc_id)
       THEN /\ ret' = [ret EXCEPT ![p] =
                 Returned("coupling_by_id", pc_id,
                          <<cs_paramedmem_coupling_by_id(couplers[p], pc_id)>>, FALSE)]
            /\ UNCHANGED <<couplers, crashed>>
       ELSE \/ Fault(p) /\ UNCHANGED ret
            \/ /\ \E garbage \in {NULL, WILD} :
                    ret' = [ret EXCEPT ![p] =
                      Returned("coupling_by_id", pc_id, garbage, FALSE)]
               /\ UNCHANGED <<couplers, crashed>>
  /\ UNCHANGED <<cs_glob_mesh, field_values, script, pc>>

\* ids given to cs_paramedmem_coupling_by_id
IdArgs == (-1)..MaxCouplers

NextReg ==
  \/ Create(0, MaxCouplers, GroupArgs)
  \/ Destroy(0)
  \/ CouplingById(0, IdArgs)

SpecReg == Init /\ [][NextReg]_vars

(***************************************************************************)
(* SpecStub: the build without HAVE_PARAMEDMEM.  Every public function is  *)
(* the branch under #if !defined(HAVE_PARAMEDMEM): it calls bft_error or   *)
(* not, and returns the initial value of its result.                       *)
(***************************************************************************)

PublicFunctions ==
  {"cs_paramedmem_interpkernel_create", "cs_paramedmem_destroy",
   "cs_paramedmem_define_mesh", "cs_paramedmem_init_meshes",
   "cs_paramedmem_mesh_id", "cs_paramedmem_mesh_get_n_elts",
   "cs_paramedmem_mesh_get_elt_list", "cs_paramedmem_field_add",
   "cs_paramedmem_field_get_id", "cs_paramedmem_field_export",
   "cs_paramedmem_field_import", "cs_paramedmem_sync_dec",
   "cs_paramedmem_send_data", "cs_paramedmem_recv_data",
   "cs_paramedmem_reattach_field", "cs_paramedmem_get_mpi_comm_world_ranks"}

\* the return type in the function's declaration
return_type(fn) ==
  IF fn \in {"cs_paramedmem_interpkernel_create", "cs_paramedmem_mesh_get_elt_list",
             "cs_paramedmem_get_mpi_comm_world_ranks"} THEN "pointer"
  ELSE IF fn = "cs_paramedmem_mesh_get_n_elts" THEN "count"
  ELSE IF fn \in {"cs_paramedmem_define_mesh", "cs_paramedmem_mesh_id",
                  "cs_paramedmem_field_add", "cs_paramedmem_field_get_id"} THEN "id"
  ELSE "void"

\* whether the branch calls bft_error
stub_calls_bft_error(fn) == fn # "cs_paramedmem_get_mpi_comm_world_ranks"

\* the value the branch returns: c = NULL, id = -1, retval = -1 / 0 / NULL,
\* f_id = -1, return NULL
stub_return(fn) ==
  IF return_type(fn) = "pointer" THEN NULL
  ELSE IF return_type(fn) = "count" THEN 0
  ELSE IF return_type(fn) = "id" THEN -1
  ELSE "void"

\* a call of a public function in that build, whatever its arguments
StubCall(p, fn) ==
  /\ ~crashed[p]
  /\ ret' = [ret EXCEPT ![p] =
       Returned(fn, 0, stub_return(fn), stub_calls_bft_error(fn))]
  /\ UNCHANGED <<couplers, crashed, cs_glob_mesh, field_values, script, pc>>

NextStub ==
  \/ \E p \in Procs : StubCall(p, "cs_paramedmem_interpkernel_create")
  \/ \E p \in Procs : StubCall(p, "cs_paramedmem_destroy")
  \/ \E p \in Procs : StubCall(p, "cs_paramedmem_define_mesh")
  \/ \E p \in Procs : StubCall(p, "cs_paramedmem_init_meshes")
  \/ \E p \in Procs : StubCall(p, "cs_paramedmem_mesh_id")
  \/ \E p \in Procs : StubCall(p, "cs_paramedmem_mesh_get_n_elts")
  \/ \E p \in Procs : StubCall(p, "cs_paramedmem_mesh_get_elt_list")
  \/ \E p \in Procs : StubCall(p, "cs_paramedmem_field_add")
  \/ \E p \in Procs : StubCall(p, "cs_paramedmem_field_get_id")
  \/ \E p \in Procs : StubCall(p, "cs_paramedmem_field_export")
  \/ \E p \in Procs : StubCall(p, "cs_paramedmem_field_import")
  \/ \E p \in Procs : StubCall(p, "cs_paramedmem_sync_dec")
  \/ \E p \in Procs : StubCall(p, "cs_paramedmem_send_data")
  \/ \E p \in Procs : StubCall(p, "cs_paramedmem_recv_data")
  \/ \E p \in Procs : StubCall(p, "cs_paramedmem_reattach_field")
  \/ \E p \in Procs : StubCall(p, "cs_paramedmem_get_mpi_comm_world_ranks")

SpecStub == Init /\ [][NextStub]_vars

(***************************************************************************)
(* SpecQuery: one coupling of rank 0 with fields of two names, looked up   *)
(* by cs_paramedmem_field_get_id, exported and imported in any order.      *)
(***************************************************************************)

QueryGroups == {<<0>>, <<1>>}
QueryNames == {"f", "g"}
QueryMeshIds == {0, 1}
\* the caller's arrays, on the parent cells
ExportArgs == {[k \in 1..ParentCells |-> 6 + k]}
\* the first entry of the array exported
ExportedFirst == (CHOOSE a \in ExportArgs : TRUE)[1]

InitQuery ==
  /\ couplers = [p \in Procs |-> <<>>]
  /\ crashed = [p \in Procs |-> FALSE]
  /\ cs_glob_mesh = ParentCells
  /\ field_values = [p \in Procs |-> [k \in 1..ParentCells |-> 0]]
  /\ script = [p \in Procs |-> <<>>]
  /\ pc = [p \in Procs |-> 1]
  /\ ret = [p \in Procs |-> NoCall]

NextQuery ==
  \/ Create(0, 1, QueryGroups)
  \/ Destroy(0)
  \/ DefineMesh(0, MeshNames, CriteriaArgs)
  \/ InitMeshes(0)
  \/ FieldAdd(0, QueryNames, {1}, {0}, {1, 2}, JunkVals)
  \/ FieldGetId(0, QueryMeshIds, QueryNames)
  \/ FieldExport(0, ExportArgs)
  \/ FieldImport(0, JunkVals)

SpecQuery == InitQuery /\ [][NextQuery]_vars

(***************************************************************************)
(* SpecSync: one coupling of rank 0 (alone in group 1) under every call    *)
(* that follows create, sync_dec being given any dec_to_sync.              *)
(***************************************************************************)

DecArgs == {0, 1, 2, 3}

NextSync ==
  \/ Create(0, 1, {<<0>>, <<1>>})
  \/ DefineMesh(0, MeshNames, CriteriaArgs)
  \/ InitMeshes(0)
  \/ FieldAdd(0, FieldNames, {1}, {0}, {1, 2}, JunkVals)
  \/ FieldExport(0, ExportArgs)
  \/ FieldImport(0, JunkVals)
  \/ ReattachField(0)
  \/ SyncDecWith(0, DecArgs)
  \/ SendData(0)
  \/ RecvData(0, PeerVals)

SpecSync == InitQuery /\ [][NextSync]_vars

(***************************************************************************)
(* SpecMesh: one coupling of rank 0 and the read-only queries on it, given *)
(* names and ids of registered and of unknown meshes.                      *)
(***************************************************************************)

MeshQueryNames == {"m", "n"}
MeshQueryIds == (-1)..(MaxMeshes + 1)
\* what a read outside the array can yield as a count
GarbageCounts == {0, 1}

NextMesh ==
  \/ Create(0, 1, QueryGroups)
  \/ DefineMesh(0, MeshQueryNames, CriteriaArgs)
  \/ InitMeshes(0)
  \/ FieldAdd(0, FieldNames, {1}, {0}, {1, 2}, JunkVals)
  \/ MeshId(0, MeshQueryNames)
  \/ MeshGetNElts(0, MeshQueryIds, GarbageCounts)
  \/ MeshGetEltList(0, MeshQueryIds)
  \/ FieldGetId(0, MeshQueryIds, FieldNames)

SpecMesh == Init /\ [][NextMesh]_vars

(***************************************************************************)
(* Scripted calls: process p makes the calls of script[p] in order, all on *)
(* its coupling 0 and field 0.  A call is a record                         *)
(*   [op, dec, on_parent, values]                                          *)
(* with op one of "export", "import", "sync", "send", "recv"; dec is the   *)
(* dec_to_sync of a sync, values the array given to export or import.      *)
(***************************************************************************)

Call(op, dec, on_parent, values) ==
  [op |-> op, dec |-> dec, on_parent |-> on_parent, values |-> values]

Running(p) == ~crashed[p] /\ pc[p] <= Len(script[p])
CurCall(p) == script[p][pc[p]]
Advance(P) == pc' = [p \in Procs |-> IF p \in P THEN pc[p] + 1 ELSE pc[p]]
AllDone == \A p \in Procs : ~crashed[p] /\ pc[p] > Len(script[p])

DoExport(p) ==
  /\ Running(p)
  /\ CurCall(p).op = "export"
  /\ Store(p, 0, cs_paramedmem_field_export(couplers[p][1], 0, CurCall(p).on_parent, CurCall(p).values))
  /\ Advance({p})
  /\ UNCHANGED <<cs_glob_mesh, ret, field_values, script>>

\* field_values[p] is the caller's array after the call
DoImport(p) ==
  /\ Running(p)
  /\ CurCall(p).op = "import"
  /\ field_values' = [field_values EXCEPT ![p] =
       cs_paramedmem_field_import(couplers[p][1], 0, CurCall(p).on_parent, CurCall(p).values)]
  /\ Advance({p})
  /\ UNCHANGED <<couplers, crashed, cs_glob_mesh, ret, script>>

(***************************************************************************)
(* SpecXfer: one process exports an array into a field and imports the     *)
(* field into another array, for every selection criteria, field dimension *)
(* and location, and both values of on_parent.                             *)
(***************************************************************************)

\* every injective sequence of cells of 0..n-1: a selection and its compact
\* numbering
RECURSIVE InjSeqs(_)
InjSeqs(S) ==
  {<<>>} \cup UNION {{<<e>> \o t : t \in InjSeqs(S \ {e})} : e \in S}

XferCriteria == InjSeqs(0..(ParentCells - 1))

\* a caller's array on the parent mesh, all entries different
Ramp(len, base) == [k \in 1..len |-> base + k]

\* the coupling of a process of the given rank, groups {0} and {1}, after
\* define_mesh, init_meshes and field_add of one field on one mesh
BuiltCoupling(rank, n_parent_cells, crit, is_source, is_dest, dim, type, dirflag, junk) ==
  LET c0 == add_paramedmem_interpkernel(<<>>, "c", <<0>>, <<1>>, rank)[1]
      c1 == cs_paramedmem_define_mesh(c0, "m", crit, 3, is_source, is_dest)
      c2 == cs_paramedmem_init_meshes(c1, n_parent_cells)
  IN cs_paramedmem_field_add(c2, "f", 0, dim, type, 0, dirflag, junk)

InitXfer ==
  /\ cs_glob_mesh = ParentCells
  /\ crashed = [p \in Procs |-> FALSE]
  /\ pc = [p \in Procs |-> 1]
  /\ ret = [p \in Procs |-> NoCall]
  /\ field_values = [p \in Procs |-> <<>>]
  /\ \E crit \in XferCriteria, dim \in 1..MaxDim, type \in {0, 1},
        on_parent \in BOOLEAN, vbase \in {10, 20}, wbase \in {0, 30} :
       /\ couplers = [p \in Procs |->
            IF p = 0
            THEN <<BuiltCoupling(0, ParentCells, crit, TRUE, TRUE, dim, type, 1, 0)>>
            ELSE <<>>]
       /\ script = [p \in Procs |->
            IF p = 0
            THEN <<Call("export", 0, on_parent, Ramp(ParentCells * dim, vbase)),
                   Call("import", 0, on_parent, Ramp(ParentCells * dim, wbase))>>
            ELSE <<>>]

NextXfer == DoExport(0) \/ DoImport(0)

SpecXfer == InitXfer /\ [][NextXfer]_vars

(***************************************************************************)
(* SpecProto: two processes, rank 0 alone in group 1 and rank 1 alone in   *)
(* group 2, each with one coupling, one mesh of all the cells of a         *)
(* coincident parent mesh and one cell field of one component (rank 0      *)
(* sends it, rank 1 receives it), each running a script.                   *)
(*                                                                         *)
(* synchronize(), sendData() and recvData() are collective calls of the    *)
(* coupling library over the two groups of a channel: a call returns when  *)
(* the peer is in the matching call on the channel with the same source    *)
(* and target groups, and blocks until then.                               *)
(***************************************************************************)

ScenarioCells == 10   \* cells of the coincident meshes of the scenario
MaxScript == 3        \* collective calls in a script

Peer(p) == 1 - p

\* whether cs_paramedmem_sync_dec calls synchronize() on a channel
sync_dec_synchronizes(coupling, dec_to_sync) ==
  LET after == cs_paramedmem_sync_dec(coupling, dec_to_sync)
  IN IF dec_to_sync = 1
     THEN after.send_dec[1].synchronize_calls # coupling.send_dec[1].synchronize_calls
     ELSE after.recv_dec[1].synchronize_calls # coupling.recv_dec[1].synchronize_calls

\* the library call the next call of p makes, if it makes one:
\* <<kind, source group, target group>>, else <<>>
LibraryCall(p) ==
  IF ~Running(p) THEN <<>>
  ELSE LET c == couplers[p][1]
           call == CurCall(p)
       IN IF call.op = "sync" /\ sync_dec_synchronizes(c, call.dec)
          THEN IF call.dec = 1
               THEN <<"synchronize", c.send_dec[1].src, c.send_dec[1].tgt>>
               ELSE <<"synchronize", c.recv_dec[1].src, c.recv_dec[1].tgt>>
          ELSE IF call.op = "send"
          THEN <<"sendData", c.send_dec[1].src, c.send_dec[1].tgt>>
          ELSE IF call.op = "recv"
          THEN <<"recvData", c.recv_dec[1].src, c.recv_dec[1].tgt>>
          ELSE <<>>

\* the two processes are in matching collective calls
CanRendezvous ==
  /\ LibraryCall(0) # <<>>
  /\ LibraryCall(1) # <<>>
  /\ LibraryCall(0)[2] = LibraryCall(1)[2]
  /\ LibraryCall(0)[3] = LibraryCall(1)[3]
  /\ {LibraryCall(0)[1], LibraryCall(1)[1]} \in {{"synchronize"}, {"sendData", "recvData"}}

\* p is in a collective call its peer is not in
Blocked(p) == LibraryCall(p) # <<>> /\ ~CanRendezvous

\* what the receiving side gets for its fields: the coincident meshes make
\* the interpolation the identity, so an array of the same size arrives as
\* the sender's first attached field holds it
Interpolated(sender, receiver) ==
  [f \in 0..(Len(receiver.fields) - 1) |->
     LET mine == FieldOf(receiver, f).array
         att == sender.send_dec[1].attached
     IN IF att = {} THEN mine
        ELSE LET theirs == FieldOf(sender, CHOOSE a \in att : \A b \in att : a <= b).array
             IN IF Len(theirs) = Len(mine) THEN theirs ELSE mine]

\* a sync that finds its channel synced returns without a library call
DoLocalSync(p) ==
  /\ Running(p)
  /\ CurCall(p).op = "sync"
  /\ LibraryCall(p) = <<>>
  /\ Store(p, 0, cs_paramedmem_sync_dec(couplers[p][1], CurCall(p).dec))
  /\ Advance({p})
  /\ UNCHANGED <<cs_glob_mesh, ret, field_values, script>>

\* both processes are in synchronize() on the same channel
RendezvousSync ==
  /\ LibraryCall(0) # <<>>
  /\ LibraryCall(0)[1] = "synchronize"
  /\ LibraryCall(1) = LibraryCall(0)
  /\ couplers' = [p \in Procs |->
       <<cs_paramedmem_sync_dec(couplers[p][1], CurCall(p).dec)>>]
  /\ Advance(Procs)
  /\ UNCHANGED <<crashed, cs_glob_mesh, ret, field_values, script>>

\* p is in sendData() and its peer in recvData() on the same channel
RendezvousTransfer(p) ==
  /\ LibraryCall(p) # <<>>
  /\ LibraryCall(p)[1] = "sendData"
  /\ LibraryCall(Peer(p)) = <<"recvData", LibraryCall(p)[2], LibraryCall(p)[3]>>
  /\ couplers' = [q \in Procs |->
       IF q = p
       THEN <<cs_paramedmem_send_data(couplers[p][1])>>
       ELSE <<cs_paramedmem_recv_data(couplers[q][1],
                                      Interpolated(couplers[p][1], couplers[q][1]))>>]
  /\ Advance(Procs)
  /\ UNCHANGED <<crashed, cs_glob_mesh, ret, field_values, script>>

Ones == [k \in 1..ScenarioCells |-> 1]
Zeros == [k \in 1..ScenarioCells |-> 0]
AllCells == [k \in 1..ScenarioCells |-> k - 1]

\* the scenario: rank 0 exports ones, syncs, sends; rank 1 syncs, receives,
\* imports
ScenarioScripts ==
  {[p \in Procs |->
      IF p = 0
      THEN <<Call("export", 0, b0, Ones), Call("sync", 1, FALSE, <<>>),
             Call("send", 0, FALSE, <<>>)>>
      ELSE <<Call("sync", 2, FALSE, <<>>), Call("recv", 0, FALSE, <<>>),
             Call("import", 0, b1, Zeros)>>] : b0 \in BOOLEAN, b1 \in BOOLEAN}

CollectiveCalls ==
  {Call("sync", 1, FALSE, <<>>), Call("sync", 2, FALSE, <<>>),
   Call("send", 0, FALSE, <<>>), Call("recv", 0, FALSE, <<>>)}

RECURSIVE SeqsUpTo(_, _)
SeqsUpTo(S, n) ==
  IF n = 0 THEN {<<>>}
  ELSE LET shorter == SeqsUpTo(S, n - 1)
       IN shorter \cup {Append(t, e) : t \in shorter, e \in S}

\* a caller that syncs a channel before it transfers on it
SyncsFirst(s) ==
  \A k \in 1..Len(s) :
    /\ s[k].op = "send" => \E h \in 1..(k - 1) : s[h].op = "sync" /\ s[h].dec = 1
    /\ s[k].op = "recv" => \E h \in 1..(k - 1) : s[h].op = "sync" /\ s[h].dec # 1

CollectiveScripts == {s \in SeqsUpTo(CollectiveCalls, MaxScript) : SyncsFirst(s)}

InitProto ==
  /\ cs_glob_mesh = ScenarioCells
  /\ crashed = [p \in Procs |-> FALSE]
  /\ pc = [p \in Procs |-> 1]
  /\ ret = [p \in Procs |-> NoCall]
  /\ field_values = [p \in Procs |-> <<>>]
  /\ couplers = [p \in Procs |->
       <<BuiltCoupling(p, ScenarioCells, AllCells, p = 0, p = 1, 1, 0, p + 1, 0)>>]
  /\ script \in ScenarioScripts \cup [Procs -> CollectiveScripts]

NextProto ==
  \/ \E p \in Procs : DoExport(p)
  \/ \E p \in Procs : DoImport(p)
  \/ \E p \in Procs : DoLocalSync(p)
  \/ RendezvousSync
  \/ \E p \in Procs : RendezvousTransfer(p)

SpecProto == InitProto /\ [][NextProto]_vars

\* each process goes on with its script, and a collective call returns once
\* both sides are in it
SpecProtoFair == SpecProto /\ WF_vars(NextProto)

(***************************************************************************)
(* Properties                                                              *)
(***************************************************************************)

\* every coupling structure a process holds
Couplings == {<<p, i>> : p \in Procs, i \in 1..MaxCouplers}
Held == {x \in Couplings : x[2] <= Len(couplers[x[1]])}
Cpl(x) == couplers[x[1]][x[2]]

\* C1: however often sync_dec was called for a channel, synchronize() ran
\* on it exactly once: the flag tells whether it ran, one returned call
\* suffices, and a call on a synced channel changes nothing.
C1_SyncExactlyOnce ==
  \A x \in Held :
    LET c == Cpl(x)
    IN /\ c.send_synced \in {0, 1} /\ c.recv_synced \in {0, 1}
       /\ c.send_dec # NULL =>
            /\ c.send_dec[1].synchronize_calls = c.send_synced
            /\ c.sync_calls[1] >= 1 => c.send_dec[1].synchronize_calls = 1
       /\ c.recv_dec # NULL =>
            /\ c.recv_dec[1].synchronize_calls = c.recv_synced
            /\ c.sync_calls[2] >= 1 => c.recv_dec[1].synchronize_calls = 1
       /\ c.send_synced = 1 => cs_paramedmem_sync_dec(c, 1) = c
       /\ c.recv_synced = 1 => cs_paramedmem_sync_dec(c, 2) = c

C1_Witness ==
  \E x \in Held :
    /\ Cpl(x).sync_calls[1] >= 2
    /\ Cpl(x).send_dec # NULL
    /\ Cpl(x).send_dec[1].synchronize_calls = 1
    /\ Cpl(x).sync_calls[2] >= 2
    /\ Cpl(x).recv_dec # NULL
    /\ Cpl(x).recv_dec[1].synchronize_calls = 1

\* C2: a transfer on the send channel happens only once the channel is
\* synced: sendData() is never called with send_synced = 0.
C2_SendOnlySynced ==
  [][\A x \in Held :
       (/\ Cpl(x).send_dec # NULL
        /\ x[2] <= Len(couplers'[x[1]])
        /\ couplers'[x[1]][x[2]].send_dec # NULL
        /\ couplers'[x[1]][x[2]].send_dec[1].xfers > Cpl(x).send_dec[1].xfers)
       => Cpl(x).send_synced = 1]_vars

\* C3: a transfer on the receive channel, which overwrites the arrays of
\* the attached fields, happens only once the channel is synced.
C3_RecvOnlySynced ==
  [][\A x \in Held :
       (/\ Cpl(x).recv_dec # NULL
        /\ x[2] <= Len(couplers'[x[1]])
        /\ couplers'[x[1]][x[2]].recv_dec # NULL
        /\ couplers'[x[1]][x[2]].recv_dec[1].xfers > Cpl(x).recv_dec[1].xfers)
       => Cpl(x).recv_synced = 1]_vars

\* C4: no mesh entry has the direction bitmask 0: every registered mesh is
\* coupled as source (1), destination (2) or both (3).
C4_NoUndirectedMesh ==
  \A x \in Held :
    \A m \in 1..Len(Cpl(x).meshes) : Cpl(x).meshes[m].direction \in {1, 2, 3}

\* C5: a coupling exists only for a caller whose rank is in exactly one of
\* the two groups given to create.
C5_RankInExactlyOneGroup ==
  \A x \in Held :
    Cpl(x).send_dec # NULL =>
      ((x[1] \in Cpl(x).send_dec[1].src) # (x[1] \in Cpl(x).send_dec[1].tgt))

\* C6: the send channel goes from the caller's own group to the other
\* group, the receive channel from the other group to the caller's own.
C6_ChannelsOwnToOther ==
  \A x \in Held :
    (Cpl(x).send_dec # NULL /\ Cpl(x).recv_dec # NULL) =>
      LET snd == Cpl(x).send_dec[1]
          rcv == Cpl(x).recv_dec[1]
      IN /\ x[1] \in snd.src /\ x[1] \notin snd.tgt
         /\ x[1] \in rcv.tgt /\ x[1] \notin rcv.src
         /\ rcv.src = snd.tgt /\ rcv.tgt = snd.src

\* the export / import pair of SpecXfer once both calls returned
XferDone == pc[0] = 3
XferField == FieldOf(couplers[0][1], 0)
XferMesh == MeshOf(couplers[0][1], 0)
XferOnParent == script[0][1].on_parent
XferV == script[0][1].values
XferW0 == script[0][2].values
XferW == field_values[0]
\* the (0-based) entries of the caller's array that export read
XferRead ==
  IF XferOnParent
  THEN {XferMesh.elt_list[i] * XferField.dim + j :
          i \in 1..XferMesh.n_elts, j \in 0..(XferField.dim - 1)}
  ELSE 0..(XferField.dim * XferMesh.n_elts - 1)

\* C7 as claimed: after export(v) then import(w) with the same on_parent, w
\* equals v on every entry export read.
C7_RoundTripAsClaimed ==
  XferDone => \A k \in XferRead : XferW[k + 1] = XferV[k + 1]

\* C7 as amended: with on_parent, w equals v on every entry export read;
\* without on_parent, the value export read at i*dim + j comes back at
\* dim*new_to_old[i] + j.
C7_RoundTrip ==
  XferDone =>
    IF XferOnParent
    THEN \A k \in XferRead : XferW[k + 1] = XferV[k + 1]
    ELSE \A i \in 0..(XferMesh.n_elts - 1), j \in 0..(XferField.dim - 1) :
           XferW[XferField.dim * XferMesh.new_to_old[1][i + 1] + j + 1]
             = XferV[i * XferField.dim + j + 1]

C7_Witness ==
  /\ XferDone
  /\ ~XferOnParent
  /\ XferMesh.n_elts = ParentCells
  /\ XferMesh.new_to_old[1][1] # 0
  /\ XferField.dim = MaxDim

\* C8: export then import with on_parent leaves every component of every
\* parent element that is not in elt_list as it was in the array given to
\* import.
C8_UnselectedUntouched ==
  (XferDone /\ XferOnParent) =>
    \A e \in (0..(ParentCells - 1)) \ Range(XferMesh.elt_list) :
      \A j \in 0..(XferField.dim - 1) :
        XferW[e * XferField.dim + j + 1] = XferW0[e * XferField.dim + j + 1]

C8_Witness ==
  /\ XferDone
  /\ XferOnParent
  /\ XferMesh.n_elts >= 1
  /\ XferMesh.n_elts < ParentCells
  /\ XferMesh.elt_list[1] # 0
  /\ XferW # XferW0

\* the collective calls a script invokes, in order
Collectives(s) == SelectSeq(s, LAMBDA call : call.op \in {"sync", "send", "recv"})

\* the call the peer has to make for a call to be matched
MirrorCall(call) ==
  IF call.op = "sync" THEN Call("sync", IF call.dec = 1 THEN 2 ELSE 1, FALSE, <<>>)
  ELSE IF call.op = "send" THEN Call("recv", 0, FALSE, <<>>)
  ELSE Call("send", 0, FALSE, <<>>)

Normal(call) ==
  IF call.op = "sync" THEN Call("sync", IF call.dec = 1 THEN 1 ELSE 2, FALSE, <<>>)
  ELSE Call(call.op, 0, FALSE, <<>>)

\* the two scripts invoke matching collective calls in the same order
InvokedMatch ==
  /\ Len(Collectives(script[0])) = Len(Collectives(script[1]))
  /\ \A k \in 1..Len(Collectives(script[0])) :
       Normal(Collectives(script[0])[k]) = MirrorCall(Collectives(script[1])[k])

\* the calls of a script without the syncs that repeat an earlier sync of
\* the same channel
RECURSIVE WithoutRepeatedSyncs(_)
WithoutRepeatedSyncs(s) ==
  IF s = <<>> THEN <<>>
  ELSE LET front == SubSeq(s, 1, Len(s) - 1)
           last == s[Len(s)]
           repeats == /\ last.op = "sync"
                      /\ \E h \in 1..Len(front) : Normal(front[h]) = Normal(last)
       IN IF repeats THEN WithoutRepeatedSyncs(front)
          ELSE Append(WithoutRepeatedSyncs(front), last)

\* the two scripts match once the repeated syncs are left out
PerformedMatch ==
  LET a == WithoutRepeatedSyncs(Collectives(script[0]))
      b == WithoutRepeatedSyncs(Collectives(script[1]))
  IN /\ Len(a) = Len(b)
     /\ \A k \in 1..Len(a) : Normal(a[k]) = MirrorCall(b[k])

\* C9: in the two-process scenario both processes finish under every
\* interleaving and rank 1 imports ten ones.
C9_ScenarioDelivers ==
  (script \in ScenarioScripts) => <>[](AllDone /\ field_values[1] = Ones)

C9_Witness ==
  /\ script \in ScenarioScripts
  /\ AllDone
  /\ field_values[1] = Ones
  /\ couplers[0][1].send_dec[1].xfers = 1
  /\ couplers[1][1].recv_dec[1].xfers = 1

C11_RecvKeepsSendBuffers ==
  [][\A x \in Held :
       (/\ Cpl(x).recv_dec # NULL
        /\ x[2] <= Len(couplers'[x[1]])
        /\ couplers'[x[1]][x[2]].recv_dec # NULL
        /\ couplers'[x[1]][x[2]].recv_dec[1].xfers > Cpl(x).recv_dec[1].xfers)
       => \A k \in 1..Len(Cpl(x).fields) :
            (Cpl(x).fields[k] # WILD /\ Cpl(x).fields[k][1].pf = 1)
            => couplers'[x[1]][x[2]].fields[k] = Cpl(x).fields[k]]_vars

\* C12: once init_meshes has run on a coupling (its meshes hold their
\* compact -> original numbering), no later call builds the ParaMESH
\* handles of a mesh again: a second init_meshes is rejected.
C12_SecondInitRejected ==
  [][\A x \in Held :
       x[2] <= Len(couplers'[x[1]]) =>
         \A m \in 1..Len(Cpl(x).meshes) :
           (/\ Cpl(x).meshes[m].new_to_old # NULL
            /\ m <= Len(couplers'[x[1]][x[2]].meshes))
           => couplers'[x[1]][x[2]].meshes[m].para_mesh = Cpl(x).meshes[m].para_mesh]_vars

\* C13: a field entry is created (n_fields grows) only on a mesh that
\* init_meshes has initialized before the call.
C13_FieldOnlyOnInitializedMesh ==
  [][\A x \in Held :
       (/\ x[2] <= Len(couplers'[x[1]])
        /\ couplers'[x[1]][x[2]].n_fields > Cpl(x).n_fields)
       => LET added == couplers'[x[1]][x[2]].fields[Cpl(x).n_fields + 1][1]
          IN MeshOf(Cpl(x), added.mesh_id).new_to_old # NULL]_vars

\* a coupling cs_paramedmem_destroy has run on
Destroyed(c) == c.name = NULL

\* C14: a destroyed coupling counts no mesh and no field, and no later call
\* on it dereferences what destroy released.
C14_DestroyReleasesAll ==
  \A x \in Held :
    Destroyed(Cpl(x)) =>
      /\ Cpl(x).n_meshes = 0
      /\ Cpl(x).n_fields = 0
      /\ ~crashed[x[1]]

\* C15: the array of couplings never shrinks; a create appends one slot
\* (the new handle is the former length, so it was never assigned before)
\* and leaves every existing slot as it was; no slot of a destroyed
\* coupling is given to a new one.
C15_HandlesNeverReused ==
  [][\A p \in Procs :
       /\ Len(couplers'[p]) >= Len(couplers[p])
       /\ Len(couplers'[p]) > Len(couplers[p]) =>
            /\ Len(couplers'[p]) = Len(couplers[p]) + 1
            /\ \A k \in 1..Len(couplers[p]) : couplers'[p][k] = couplers[p][k]
       /\ \A k \in 1..Len(couplers[p]) :
            Destroyed(couplers[p][k]) => Destroyed(couplers'[p][k])]_vars

C15_Witness ==
  /\ Len(couplers[0]) = MaxCouplers
  /\ Destroyed(couplers[0][1])
  /\ ~Destroyed(couplers[0][MaxCouplers])
  /\ couplers[0][MaxCouplers].send_dec[1].src = {0}

\* C16: cs_paramedmem_coupling_by_id returns the coupling stored at pc_id
\* when 0 <= pc_id < number of couplings created, and raises an error for
\* every other pc_id.
C16_GetChecksHandle ==
  [][\A p \in Procs :
       (ret'[p] # ret[p] /\ ret'[p].op = "coupling_by_id") =>
         IF ret'[p].arg >= 0 /\ ret'[p].arg < Len(couplers[p])
         THEN ret'[p].value = <<couplers[p][ret'[p].arg + 1]>> /\ ~ret'[p].error
         ELSE ret'[p].error]_vars

\* C17: in the build without the coupling library every public function
\* raises the unsupported-configuration error, leaves the state as it was
\* and returns the sentinel of its type (NULL for a pointer, -1 for an id).
C17_StubsRaiseAndReturnSentinel ==
  \A p \in Procs :
    ret[p].op \in PublicFunctions =>
      /\ ret[p].error
      /\ return_type(ret[p].op) = "pointer" => ret[p].value = NULL
      /\ return_type(ret[p].op) = "id" => ret[p].value = -1
      /\ couplers[p] = <<>>
      /\ field_values[p] = <<>>

\* C18: on a coupling that was not destroyed, cs_paramedmem_field_get_id
\* returns the smallest id of a field of that mesh id and name, -1 when
\* there is none, and changes nothing.
C18_GetFieldIdFirstMatch ==
  [][\A p \in Procs :
       (ret'[p] # ret[p] /\ ret'[p].op = "field_get_id") =>
         LET c == couplers[p][ret'[p].arg[1] + 1]
             mesh_id == ret'[p].arg[2]
             name == ret'[p].arg[3]
             v == ret'[p].value
             match(i) == /\ FieldOf(c, i).mesh_id = mesh_id
                         /\ FieldOf(c, i).name = name
         IN ~Destroyed(c) =>
              /\ couplers' = couplers
              /\ field_values' = field_values
              /\ ~ret'[p].error
              /\ v = -1 => \A i \in 0..(c.n_fields - 1) : ~match(i)
              /\ v # -1 => /\ v \in 0..(c.n_fields - 1)
                           /\ match(v)
                           /\ \A i \in 0..(v - 1) : ~match(i)]_vars

C18_Witness ==
  /\ ret[0].op = "field_get_id"
  /\ ret[0].value = 0
  /\ ~Destroyed(couplers[0][1])
  /\ couplers[0][1].n_fields = 2
  /\ FieldOf(couplers[0][1], 0).name = ret[0].arg[3]
  /\ FieldOf(couplers[0][1], 1).name = ret[0].arg[3]
  /\ FieldOf(couplers[0][1], 1).mesh_id = ret[0].arg[2]

\* C19: wherever cs_paramedmem_reattach_field can be called on a field, the
\* coupling it leaves has the same send_synced and recv_synced, the same
\* fields with the same arrays, the same meshes and the same counts.
C19_ReattachFrame ==
  \A x \in Held :
    \A f \in 0..(Cpl(x).n_fields - 1) :
      (/\ field_is_valid(Cpl(x), f)
       /\ ~cs_paramedmem_reattach_field_faults(Cpl(x), f))
      => LET r == cs_paramedmem_reattach_field(Cpl(x), f)
         IN /\ r.send_synced = Cpl(x).send_synced
            /\ r.recv_synced = Cpl(x).recv_synced
            /\ r.fields = Cpl(x).fields
            /\ r.meshes = Cpl(x).meshes
            /\ r.n_meshes = Cpl(x).n_meshes
            /\ r.n_fields = Cpl(x).n_fields

\* a field added for sending is attached to the receive channel, which
\* only reattach_field does, on a coupling with both channels synced
C19_Witness ==
  \E x \in Held :
    /\ Cpl(x).recv_dec # NULL
    /\ Cpl(x).send_synced = 1
    /\ Cpl(x).recv_synced = 1
    /\ \E f \in Cpl(x).recv_dec[1].attached :
         /\ field_is_valid(Cpl(x), f)
         /\ FieldOf(Cpl(x), f).pf = 1
         /\ Len(FieldOf(Cpl(x), f).array) > 0

\* C20: a call of field_import (the caller's array changes) leaves every
\* coupling as it was; a call of field_export (an array of a field
\* changes, the fields being the same) changes the array of one field only
\* and leaves both channels (no synchronize, no transfer) and both synced
\* flags as they were.
C20_ExportImportLocal ==
  [][\A x \in Held :
       LET c == Cpl(x)
           p == x[1]
       IN /\ field_values'[p] # field_values[p] => couplers' = couplers
          /\ (/\ x[2] <= Len(couplers'[p])
              /\ Len(couplers'[p][x[2]].fields) = Len(c.fields)
              /\ couplers'[p][x[2]].fields # c.fields)
             => LET d == couplers'[p][x[2]]
                    changed == {k \in 1..Len(c.fields) : d.fields[k] # c.fields[k]}
                IN /\ Cardinality(changed) = 1
                   /\ \A k \in changed :
                        d.fields[k][1] = [c.fields[k][1] EXCEPT !.array = d.fields[k][1].array]
                   /\ d.send_dec = c.send_dec
                   /\ d.recv_dec = c.recv_dec
                   /\ d.send_synced = c.send_synced
                   /\ d.recv_synced = c.recv_synced
                   /\ d.meshes = c.meshes
                   /\ field_values' = field_values]_vars

\* one of two fields was exported into and then imported
C20_Witness ==
  /\ Len(couplers[0]) = 1
  /\ couplers[0][1].n_fields = 2
  /\ Len(couplers[0][1].fields) = 2
  /\ field_is_valid(couplers[0][1], 0)
  /\ field_is_valid(couplers[0][1], 1)
  /\ FieldOf(couplers[0][1], 0).array = <<0>>
  /\ FieldOf(couplers[0][1], 1).array = <<ExportedFirst>>
  /\ field_values[0][2] = ExportedFirst

\* C21: once send_synced (recv_synced) of a coupling is 1, no call sets it
\* back to 0 and no call makes the channel synchronize again.
C21_SyncedIsOneWay ==
  [][\A x \in Held :
       x[2] <= Len(couplers'[x[1]]) =>
         LET c == Cpl(x)
             d == couplers'[x[1]][x[2]]
         IN /\ c.send_synced = 1 =>
                 /\ d.send_synced = 1
                 /\ (c.send_dec # NULL /\ d.send_dec # NULL) =>
                      d.send_dec[1].synchronize_calls = c.send_dec[1].synchronize_calls
            /\ c.recv_synced = 1 =>
                 /\ d.recv_synced = 1
                 /\ (c.recv_dec # NULL /\ d.recv_dec # NULL) =>
                      d.recv_dec[1].synchronize_calls = c.recv_dec[1].synchronize_calls]_vars

\* both channels synced, then a field added, re-attached, exported into,
\* sent and received, and the syncs repeated
C21_Witness ==
  \E x \in Held :
    /\ Cpl(x).send_synced = 1
    /\ Cpl(x).recv_synced = 1
    /\ Cpl(x).sync_calls = <<MaxSyncCalls, MaxSyncCalls>>
    /\ Cpl(x).send_dec[1].synchronize_calls = 1
    /\ Cpl(x).recv_dec[1].synchronize_calls = 1
    /\ Cpl(x).send_dec[1].xfers = 1
    /\ Cpl(x).recv_dec[1].xfers = 1
    /\ Cpl(x).n_fields = MaxFields
    /\ Cpl(x).send_dec[1].attached \cap Cpl(x).recv_dec[1].attached # {}

\* C22: wherever cs_paramedmem_sync_dec can be called, with dec_to_sync = 1
\* it synchronizes the send channel if it is not synced and leaves the
\* receive channel and recv_synced as they were; with any other
\* dec_to_sync it does so for the receive channel and leaves the send
\* channel and send_synced as they were.
C22_SyncActsOnOneChannel ==
  \A x \in Held :
    \A dec_to_sync \in DecArgs :
      ~cs_paramedmem_sync_dec_faults(Cpl(x), dec_to_sync) =>
        LET c == Cpl(x)
            r == cs_paramedmem_sync_dec(c, dec_to_sync)
        IN IF dec_to_sync = 1
           THEN /\ r.recv_synced = c.recv_synced
                /\ r.recv_dec = c.recv_dec
                /\ r.send_synced = 1
                /\ c.send_synced = 0 =>
                     r.send_dec[1].synchronize_calls = c.send_dec[1].synchronize_calls + 1
           ELSE /\ r.send_synced = c.send_synced
                /\ r.send_dec = c.send_dec
                /\ r.recv_synced = 1
                /\ c.recv_synced = 0 =>
                     r.recv_dec[1].synchronize_calls = c.recv_dec[1].synchronize_calls + 1

\* the receive channel was synced and the send channel was not
C22_Witness ==
  \E x \in Held :
    /\ Cpl(x).recv_synced = 1
    /\ Cpl(x).recv_dec[1].synchronize_calls = 1
    /\ Cpl(x).sync_calls = <<0, MaxSyncCalls>>
    /\ Cpl(x).send_synced = 0
    /\ Cpl(x).send_dec[1].synchronize_calls = 0
    /\ Cpl(x).n_fields > 0

\* C23: for every mesh and each slot, at most one ParaMESH object is ever
\* built: a handle that exists is never replaced by a new one.
C23_HandleBuiltOnce ==
  \A x \in Held :
    \A m \in 1..Len(Cpl(x).meshes), slot \in 1..2 :
      ParaGen(Cpl(x).meshes[m].para_mesh[slot]) <= 1

\* C24: a mesh entry added by define_mesh has both slots empty, and the
\* init_meshes that initializes a mesh builds its send-side handle iff
\* the mesh is a source and its receive-side handle iff it is a
\* destination.
C24_InitBuildsRequestedHandles ==
  [][\A x \in Held :
       x[2] <= Len(couplers'[x[1]]) =>
         LET c == Cpl(x)
             d == couplers'[x[1]][x[2]]
         IN /\ \A m \in (Len(c.meshes) + 1)..Len(d.meshes) :
                 d.meshes[m].para_mesh = <<NULL, NULL>>
            /\ \A m \in 1..Min(Len(c.meshes), Len(d.meshes)) :
                 (c.meshes[m].new_to_old = NULL /\ d.meshes[m].new_to_old # NULL)
                 => /\ d.meshes[m].para_mesh[1] # c.meshes[m].para_mesh[1]
                         <=> (c.meshes[m].para_mesh[1] = NULL /\ c.meshes[m].direction \in {1, 3})
                    /\ d.meshes[m].para_mesh[2] # c.meshes[m].para_mesh[2]
                         <=> (c.meshes[m].para_mesh[2] = NULL /\ c.meshes[m].direction \in {2, 3})]_vars

\* C25: every field of a coupling has a direction of send (1) or receive
\* (2), its mesh has the handle of that direction and that direction in its
\* bitmask, and the field is attached to the channel of that direction.
C25_FieldsHaveChannel ==
  \A x \in Held :
    \A f \in 0..(Len(Cpl(x).fields) - 1) :
      Cpl(x).fields[f + 1] # WILD =>
        LET fld == FieldOf(Cpl(x), f)
            pmesh == MeshOf(Cpl(x), fld.mesh_id)
        IN /\ fld.pf \in {1, 2}
           /\ pmesh.para_mesh[fld.pf] # NULL
           /\ pmesh.direction \in {fld.pf, 3}
           /\ fld.pf = 1 => f \in Cpl(x).send_dec[1].attached
           /\ fld.pf = 2 => f \in Cpl(x).recv_dec[1].attached

\* C26: every field a coupling counts is an entry of its field array whose
\* mesh_id is the id of one of its meshes, also after destroy.
C26_FieldsReferToLiveMesh ==
  \A x \in Held :
    \A f \in 0..(Cpl(x).n_fields - 1) :
      /\ f < Len(Cpl(x).fields)
      /\ Cpl(x).fields[f + 1] # WILD
      /\ FieldOf(Cpl(x), f).mesh_id >= 0
      /\ FieldOf(Cpl(x), f).mesh_id < Cpl(x).n_meshes

\* C27: wherever cs_paramedmem_reattach_field can be called on a field
\* added for sending (receiving), it makes that field the local field of
\* the send (receive) channel and leaves the other channel as it was.
C27_ReattachByFieldDirection ==
  \A x \in Held :
    \A f \in 0..(Cpl(x).n_fields - 1) :
      (/\ field_is_valid(Cpl(x), f)
       /\ FieldOf(Cpl(x), f).pf \in {1, 2}
       /\ ~cs_paramedmem_reattach_field_faults(Cpl(x), f))
      => LET r == cs_paramedmem_reattach_field(Cpl(x), f)
         IN IF FieldOf(Cpl(x), f).pf = 1
            THEN r.send_dec[1].local = f /\ r.recv_dec = Cpl(x).recv_dec
            ELSE r.recv_dec[1].local = f /\ r.send_dec = Cpl(x).send_dec

C30_QueriesReturnSentinel ==
  [][/\ crashed' = crashed
     /\ \A p \in Procs :
          ret'[p] # ret[p] =>
            LET c == couplers[p][ret'[p].arg[1] + 1]
                a == ret'[p].arg[2]
                v == ret'[p].value
                unknown == a < 0 \/ a >= c.n_meshes
            IN /\ couplers' = couplers
               /\ ret'[p].op = "mesh_id" =>
                    IF v = -1
                    THEN \A i \in 1..c.n_meshes : c.meshes[i].name # a
                    ELSE /\ v \in 0..(c.n_meshes - 1)
                         /\ c.meshes[v + 1].name = a
                         /\ \A i \in 1..v : c.meshes[i].name # a
               /\ (ret'[p].op = "mesh_get_n_elts" /\ unknown) => v = 0
               /\ (ret'[p].op = "mesh_get_elt_list" /\ unknown) => v = NULL
               /\ (ret'[p].op = "field_get_id" /\ unknown) => v = -1]_vars

\* C31: a step that registers a mesh or a field gives it the id that
\* follows the ids in use, so that every id below the count denotes an
\* entry, and leaves the entries registered before as they were; a step
\* that is neither a registration nor the destruction of the coupling
\* leaves n_meshes and n_fields as they were.
C31_IdsInRegistrationOrder ==
  [][\A x \in Held :
       LET c == Cpl(x)
           d == couplers'[x[1]][x[2]]
       IN d # cs_paramedmem_destroy(c) =>
            /\ d.n_meshes \in {c.n_meshes, c.n_meshes + 1}
            /\ d.n_fields \in {c.n_fields, c.n_fields + 1}
            /\ d.n_meshes = c.n_meshes + 1 =>
                 /\ Len(d.meshes) = d.n_meshes
                 /\ \A i \in 1..c.n_meshes :
                      /\ d.meshes[i].name = c.meshes[i].name
                      /\ d.meshes[i].sel_criteria = c.meshes[i].sel_criteria
                      /\ d.meshes[i].direction = c.meshes[i].direction
            /\ d.n_fields = c.n_fields + 1 =>
                 /\ Len(d.fields) = d.n_fields
                 /\ \A i \in 1..d.n_fields : d.fields[i] # WILD
                 /\ \A i \in 1..c.n_fields :
                      /\ i <= Len(c.fields)
                      /\ d.fields[i][1].name = c.fields[i][1].name
                      /\ d.fields[i][1].mesh_id = c.fields[i][1].mesh_id
                      /\ d.fields[i][1].dim = c.fields[i][1].dim]_vars

\* C32: the array of every field of a coupling has at least dim * n_elts
\* entries, n_elts being that of the field's mesh now, so that the indices
\* field_export writes and field_import reads are inside it.
C32_BufferCoversExtent ==
  \A x \in Held :
    \A f \in 0..(Cpl(x).n_fields - 1) :
      field_is_valid(Cpl(x), f) =>
        field_export_extent(Cpl(x), f) <= Len(FieldOf(Cpl(x), f).array)

====
